---- MODULE Spec2Model ----
(***************************************************************************)
(* AbsMaxChannelWiseWeightObserverLayer                                    *)
(* (paddleslim/quant/observers/abs_max_weight.py).                         *)
(*                                                                         *)
(* The observer caches, on its first forward pass, a per-channel value     *)
(* found by a grid search over factor * abs_max, and later exposes it as   *)
(* the scale.                                                              *)
(*                                                                         *)
(* Numbers.  The loop counter `factor` is a Python float (IEEE double); it *)
(* is modelled bit-exactly as a pair <<hi, lo>> standing for               *)
(* (hi * 2^29 + lo) * 2^-58, with round-to-nearest-even after each         *)
(* addition.  Tensor values are float32: the cast of `factor` to float32   *)
(* cannot see the accumulated drift of the double (below 2^-50), so in the *)
(* tensor arithmetic the factor is the multiple of the 0.02 step it is     *)
(* nearest to, and the tensor arithmetic itself is carried out exactly, in *)
(* rationals.  A per-channel value is a record [n, eps] standing for       *)
(* n/50, or n/50 * 1e-8 when eps.                                          *)
(***************************************************************************)
EXTENDS Integers, Sequences, FiniteSets

VARIABLES quant_axis, max, scale, zero_point, op, arg, ret, err,
          observed, evaluated, pc, tin, atomic

vars == <<quant_axis, max, scale, zero_point, op, arg, ret, err,
          observed, evaluated, pc, tin, atomic>>

(* Largest magnitude of a tensor element. *)
MaxVal == 2

(* Shape of the weight tensors: Shape[1] rows of Shape[2] elements. *)
Shape == <<2, 2>>

Rank == Len(Shape)

(* Python None: no tensor. *)
None == <<>>

(* ------------------------------ tensors ------------------------------ *)

Vals == {0 - MaxVal} \cup (0..MaxVal)

Rows(S) == [1..Shape[2] -> S]

TensorsOver(S) == [1..Shape[1] -> Rows(S)]

(* Every weight tensor within the bounds. *)
Tensors == TensorsOver(Vals)

(* The tensors of the calibration-session specifications. *)
CalibTensors == TensorsOver({0, MaxVal})

(* ------------------------- IEEE double: factor ------------------------ *)

Limb == 2^29

(* 0.3 = 0x1.3333333333333p-2 *)
Factor0 == <<161061273, 322122544>>

(* 0.02 = 0x1.47ae147ae147bp-6 *)
FactorStep == <<10737418, 128849019>>

(* 1.0 *)
FactorMax == <<536870912, 0>>

(* Unit in the last place of a double in [0.25, 2), in units of 2^-58. *)
Ulp(hi) == IF hi < Limb \div 2 THEN 16 ELSE IF hi < Limb THEN 32 ELSE 64

(* Round-to-nearest, ties to even, of hi*2^29 + lo to a multiple of u. *)
RoundNearestEven(hi, lo, u) ==
  LET q  == lo \div u
      r  == lo % u
      up == (2 * r > u) \/ (2 * r = u /\ q % 2 = 1)
      l  == (IF up THEN q + 1 ELSE q) * u
  IN  IF l >= Limb THEN <<hi + 1, l - Limb>> ELSE <<hi, l>>

(* a + b in double arithmetic. *)
DblAdd(a, b) ==
  LET l  == a[2] + b[2]
      hi == a[1] + b[1] + (l \div Limb)
      lo == l % Limb
  IN  RoundNearestEven(hi, lo, Ulp(hi))

DblLeq(a, b) == a[1] < b[1] \/ (a[1] = b[1] /\ a[2] <= b[2])

(* The factor as the float32 tensor arithmetic sees it: the multiple of    *)
(* 1/50 nearest to its 20 leading bits.                                    *)
GridOf(f) == ((f[1] \div 512) * 50 + 524288) \div 1048576

(* --------------------------- quantization ---------------------------- *)

QuantBits == 8

qmax == 2^(QuantBits - 1) - 1

qmin == 0 - qmax

(* float('inf') *)
Inf == 2147483647

(* np.float32(1e-8), in units of 1/50 * 1e-8 *)
Eps == [n |-> 50, eps |-> TRUE]

Abs(x) == IF x < 0 THEN 0 - x ELSE x

Sign(x) == IF x < 0 THEN 0 - 1 ELSE IF x > 0 THEN 1 ELSE 0

Min(a, b) == IF a <= b THEN a ELSE b

(* paddle.round: num/den to the nearest integer, halves away from zero. *)
Round(num, den) ==
  Sign(num) * Sign(den) * ((2 * Abs(num) + Abs(den)) \div (2 * Abs(den)))

(* paddle.clip *)
Clip(x, lo, hi) == IF x < lo THEN lo ELSE IF x > hi THEN hi ELSE x

(* The dimensions reduced over: every dimension but quant_axis(). *)
ReduceAxis(axis) == {i \in 0..(Rank - 1) : i # axis}

(* Column c of the tensor, from row r on. *)
RECURSIVE ColFrom(_, _, _)
ColFrom(inputs, c, r) ==
  IF r > Shape[1] THEN <<>>
  ELSE <<inputs[r][c]>> \o ColFrom(inputs, c, r + 1)

RECURSIVE ColsFrom(_, _)
ColsFrom(inputs, c) ==
  IF c > Shape[2] THEN <<>>
  ELSE <<ColFrom(inputs, c, 1)>> \o ColsFrom(inputs, c + 1)

RECURSIVE RowsFrom(_, _)
RowsFrom(inputs, r) ==
  IF r > Shape[1] THEN <<>>
  ELSE <<inputs[r]>> \o RowsFrom(inputs, r + 1)

(* Every element of the tensor, from row r on. *)
RECURSIVE FlatFrom(_, _)
FlatFrom(inputs, r) ==
  IF r > Shape[1] THEN <<>>
  ELSE inputs[r] \o FlatFrom(inputs, r + 1)

(* The slices a reduction over ReduceAxis(axis) runs over, one per entry   *)
(* of the reduced tensor: rows, columns, or the whole tensor when no       *)
(* dimension is kept.                                                      *)
Slices(inputs, axis) ==
  IF ReduceAxis(axis) = {1} THEN RowsFrom(inputs, 1)
  ELSE IF ReduceAxis(axis) = {0} THEN ColsFrom(inputs, 1)
  ELSE <<FlatFrom(inputs, 1)>>

RECURSIVE MaxAbsFrom(_, _)
MaxAbsFrom(slice, i) ==
  IF i > Len(slice) THEN 0
  ELSE LET m == MaxAbsFrom(slice, i + 1)
       IN  IF Abs(slice[i]) > m THEN Abs(slice[i]) ELSE m

(* paddle.max(paddle.abs(inputs), axis=reduce_axis) for one slice *)
MaxAbs(slice) == MaxAbsFrom(slice, 1)

(* paddle.where(abs_max_values == 0, 1e-8, abs_max_values) for one entry *)
ReplaceZero(m) == IF m = 0 THEN Eps ELSE [n |-> 50 * m, eps |-> FALSE]

RECURSIVE AbsMaxFrom(_, _)
AbsMaxFrom(slices, c) ==
  IF c > Len(slices) THEN <<>>
  ELSE <<ReplaceZero(MaxAbs(slices[c]))>> \o AbsMaxFrom(slices, c + 1)

(* abs_max_values, zeros replaced *)
AbsMaxValues(inputs, axis) == AbsMaxFrom(Slices(inputs, axis), 1)

(* scales = factor * abs_max_values, for one entry; k is the factor in     *)
(* fiftieths.                                                              *)
ScaleOf(k, a) == [n |-> (k * a.n) \div 50, eps |-> a.eps]

(* clip(round(x / s * qmax), qmin, qmax).  A non-zero x over an Eps scale  *)
(* is at least 1e8 in magnitude and saturates.                             *)
Quant(x, s) ==
  IF x = 0 THEN 0
  ELSE IF s.eps THEN Sign(x) * Sign(s.n) * qmax
  ELSE Clip(Round(x * 50 * qmax, s.n), qmin, qmax)

(* x - quant_var / qmax * s, in units of 1/(50 * qmax).  The Eps scale     *)
(* arises only for an all-zero slice, where quant_var = 0.                 *)
Err(x, s) == x * 50 * qmax - (IF s.eps THEN 0 ELSE Quant(x, s) * s.n)

Sq(e) == e * e

RECURSIVE SumSqFrom(_, _, _)
SumSqFrom(slice, s, i) ==
  IF i > Len(slice) THEN 0
  ELSE Sq(Err(slice[i], s)) + SumSqFrom(slice, s, i + 1)

(* ((inputs - quant_dequant_var)**2).mean(axis=reduce_axis) for one slice, *)
(* in units of 1/(Len(slice) * (50 * qmax)^2): the unit is the same for    *)
(* every candidate of the slice.                                           *)
MseLoss(slice, s) == SumSqFrom(slice, s, 1)

(* The loop test with the bound 1.1 for 1.0 (0x1.199999999999ap+0). *)
LoopGuardWide(factor) == DblLeq(factor, <<590558003, 107374208>>)

(* while factor <= 1.0 *)
LoopGuard(factor) == DblLeq(factor, FactorMax)

(* The comparison with <= for <: a tie replaces the result. *)
ImprovesOrTies(mse, minimum) == mse <= minimum

(* mse_loss < minimum_loss *)
Improves(mse, minimum) == mse < minimum

(* paddle.maximum for paddle.minimum. *)
NextMaximum(mse, minimum) == IF mse >= minimum THEN mse ELSE minimum

(* paddle.minimum(mse_loss, minimum_loss) *)
NextMinimum(mse, minimum) == Min(mse, minimum)

(* scales = factor * abs_max_values *)
RECURSIVE ScalesFrom(_, _, _)
ScalesFrom(abs_max, k, c) ==
  IF c > Len(abs_max) THEN <<>>
  ELSE <<ScaleOf(k, abs_max[c])>> \o ScalesFrom(abs_max, k, c + 1)

(* mse_loss = ((inputs - quant_dequant_var)**2).mean(axis=reduce_axis) *)
RECURSIVE MseFrom(_, _, _)
MseFrom(slices, scales, c) ==
  IF c > Len(scales) THEN <<>>
  ELSE <<MseLoss(slices[c], scales[c])>> \o MseFrom(slices, scales, c + 1)

(* result = paddle.where(mse_loss < minimum_loss, scales, result) *)
RECURSIVE ResultFrom(_, _, _, _, _)
ResultFrom(mse_loss, minimum_loss, scales, result, c) ==
  IF c > Len(scales) THEN <<>>
  ELSE <<IF Improves(mse_loss[c], minimum_loss[c]) THEN scales[c] ELSE result[c]>>
       \o ResultFrom(mse_loss, minimum_loss, scales, result, c + 1)

(* minimum_loss = paddle.minimum(mse_loss, minimum_loss) *)
RECURSIVE MinimumFrom(_, _, _)
MinimumFrom(mse_loss, minimum_loss, c) ==
  IF c > Len(mse_loss) THEN <<>>
  ELSE <<NextMinimum(mse_loss[c], minimum_loss[c])>>
       \o MinimumFrom(mse_loss, minimum_loss, c + 1)

(* The loop body's updates, given this pass's scales and mse_loss. *)
Update(scales, mse_loss, factor, st) ==
  [result       |-> ResultFrom(mse_loss, st.minimum_loss, scales, st.result, 1),
   minimum_loss |-> MinimumFrom(mse_loss, st.minimum_loss, 1),
   evaluated    |-> Append(st.evaluated, factor)]

(* One pass of the loop body at `factor`. *)
LoopBody(slices, abs_max, factor, st) ==
  Update(ScalesFrom(abs_max, GridOf(factor), 1),
         MseFrom(slices, ScalesFrom(abs_max, GridOf(factor), 1), 1),
         factor, st)

(* The loop, from the pass at `factor` on, st being the loop's variables   *)
(* before that pass (the test on st only makes each pass be evaluated      *)
(* before the next one starts).                                            *)
RECURSIVE SearchLoop(_, _, _, _)
SearchLoop(slices, abs_max, factor, st) ==
  IF Len(st.result) = Len(abs_max) /\ LoopGuard(factor)
  THEN SearchLoop(slices, abs_max, DblAdd(factor, FactorStep),
                  LoopBody(slices, abs_max, factor, st))
  ELSE st

(* paddle.full(shape, v) *)
RECURSIVE Full(_, _)
Full(n, v) == IF n = 0 THEN <<>> ELSE <<v>> \o Full(n - 1, v)

(* _cal_abs_max: the search result, with the factors the loop evaluated. *)
CalAbsMax(inputs, axis) ==
  LET abs_max == AbsMaxValues(inputs, axis)
  IN  SearchLoop(Slices(inputs, axis), abs_max, Factor0,
                 [result       |-> abs_max,
                  minimum_loss |-> Full(Len(abs_max), Inf),
                  evaluated    |-> <<>>])

(* paddle.zeros_like *)
ZerosLike(t) == Full(Len(t), [n |-> 0, eps |-> FALSE])

(* ------------------------------ observer ----------------------------- *)

Axes == 0..Rank

Threads == {1, 2}

InitObserver ==
  /\ quant_axis \in Axes
  /\ max = None
  /\ scale = None
  /\ zero_point = None
  /\ op = "init"
  /\ arg = None
  /\ ret = None
  /\ err = "none"
  /\ observed = None
  /\ evaluated = <<>>
  /\ pc = [t \in Threads |-> "idle"]
  /\ tin = [t \in Threads |-> None]

Init == InitObserver /\ atomic = TRUE

(* forward without the `is None` test: every call searches and stores. *)
ForwardAlways(inputs) ==
  /\ LET r == CalAbsMax(inputs, quant_axis)
     IN  max' = r.result /\ evaluated' = r.evaluated
  /\ observed' = IF observed = None THEN inputs ELSE observed
  /\ op' = "forward"
  /\ arg' = inputs
  /\ ret' = inputs
  /\ err' = "none"
  /\ UNCHANGED <<quant_axis, scale, zero_point, pc, tin, atomic>>

(* forward(inputs) *)
Forward(inputs) ==
  /\ IF max = None
     THEN LET r == CalAbsMax(inputs, quant_axis)
          IN  max' = r.result /\ evaluated' = r.evaluated
     ELSE UNCHANGED <<max, evaluated>>
  /\ observed' = IF observed = None THEN inputs ELSE observed
  /\ op' = "forward"
  /\ arg' = inputs
  /\ ret' = inputs
  /\ err' = "none"
  /\ UNCHANGED <<quant_axis, scale, zero_point, pc, tin, atomic>>

(* max_value() *)
MaxValue ==
  /\ op' = "max_value"
  /\ arg' = None
  /\ ret' = max
  /\ err' = "none"
  /\ UNCHANGED <<quant_axis, max, scale, zero_point, observed, evaluated,
                 pc, tin, atomic>>

(* cal_thresholds without its second assignment. *)
CalThresholdsScaleOnly ==
  [scale      |-> max,
   zero_point |-> zero_point,
   err        |-> IF max = None THEN "AttributeError" ELSE "none"]

(* The body of cal_thresholds: _scale is assigned first; zeros_like(None)  *)
(* raises before _zero_point is assigned.                                  *)
CalThresholdsBody ==
  [scale      |-> max,
   zero_point |-> IF max = None THEN zero_point ELSE ZerosLike(max),
   err        |-> IF max = None THEN "AttributeError" ELSE "none"]

(* cal_thresholds() *)
CalThresholds ==
  /\ scale' = CalThresholdsBody.scale
  /\ zero_point' = CalThresholdsBody.zero_point
  /\ err' = CalThresholdsBody.err
  /\ op' = "cal_thresholds"
  /\ arg' = None
  /\ ret' = None
  /\ UNCHANGED <<quant_axis, max, observed, evaluated, pc, tin, atomic>>

(* scales() *)
Scales ==
  /\ IF scale = None
     THEN /\ scale' = CalThresholdsBody.scale
          /\ zero_point' = CalThresholdsBody.zero_point
          /\ err' = CalThresholdsBody.err
     ELSE /\ UNCHANGED <<scale, zero_point>>
          /\ err' = "none"
  /\ ret' = IF err' = "none" THEN scale' ELSE None
  /\ op' = "scales"
  /\ arg' = None
  /\ UNCHANGED <<quant_axis, max, observed, evaluated, pc, tin, atomic>>

(* zero_points() *)
ZeroPoints ==
  /\ IF zero_point = None
     THEN /\ scale' = CalThresholdsBody.scale
          /\ zero_point' = CalThresholdsBody.zero_point
          /\ err' = CalThresholdsBody.err
     ELSE /\ UNCHANGED <<scale, zero_point>>
          /\ err' = "none"
  /\ ret' = IF err' = "none" THEN zero_point' ELSE None
  /\ op' = "zero_points"
  /\ arg' = None
  /\ UNCHANGED <<quant_axis, max, observed, evaluated, pc, tin, atomic>>

Accessors == MaxValue \/ CalThresholds \/ Scales \/ ZeroPoints

(* A calibration session: any calls in any order. *)
Next == (\E inputs \in CalibTensors : Forward(inputs)) \/ Accessors

Spec == Init /\ [][Next]_vars

(* One weight tensor observed once, any tensor within the bounds, and the  *)
(* result read back.                                                       *)
FirstForward == \E inputs \in Tensors : max = None /\ Forward(inputs)

NextSearch == FirstForward \/ (max # None /\ (MaxValue \/ Scales))

SpecSearch == Init /\ [][NextSearch]_vars

(* --------------------------- two callers ----------------------------- *)

(* The tensors of the two-caller specification: the uniform ones. *)
ConcTensors == {t \in CalibTensors : \A r \in DOMAIN t : \A c \in DOMAIN t[r] : t[r][c] = t[1][1]}

(* `atomic`: the host runs each forward call under an exclusive lock. *)
InitConc == InitObserver /\ atomic \in BOOLEAN

(* forward, up to `if self._max is None`: thread t has read _max. *)
Enter(t, inputs) ==
  /\ ~atomic
  /\ pc[t] = "idle"
  /\ IF max = None
     THEN /\ pc' = [pc EXCEPT ![t] = "search"]
          /\ tin' = [tin EXCEPT ![t] = inputs]
          /\ UNCHANGED <<op, arg, ret, err>>
     ELSE /\ op' = "forward"
          /\ arg' = inputs
          /\ ret' = inputs
          /\ err' = "none"
          /\ UNCHANGED <<pc, tin>>
  /\ UNCHANGED <<quant_axis, max, scale, zero_point, observed, evaluated, atomic>>

(* forward, from the search to the return: thread t stores its result. *)
Finish(t) ==
  /\ pc[t] = "search"
  /\ LET r == CalAbsMax(tin[t], quant_axis)
     IN  max' = r.result /\ evaluated' = r.evaluated
  /\ observed' = IF observed = None THEN tin[t] ELSE observed
  /\ op' = "forward"
  /\ arg' = tin[t]
  /\ ret' = tin[t]
  /\ err' = "none"
  /\ pc' = [pc EXCEPT ![t] = "idle"]
  /\ tin' = [tin EXCEPT ![t] = None]
  /\ UNCHANGED <<quant_axis, scale, zero_point, atomic>>

LockedForward == \E inputs \in ConcTensors : atomic /\ Forward(inputs)

NextConc ==
  \/ \E t \in Threads : \E inputs \in ConcTensors : Enter(t, inputs)
  \/ \E t \in Threads : Finish(t)
  \/ LockedForward
  \/ MaxValue
  \/ Scales

SpecConc == InitConc /\ [][NextConc]_vars

(* ------------------------------ claims ------------------------------- *)

ValidAxis == quant_axis \in 0..(Rank - 1)

(* The slices and the abs-max of the tensor the search ran on. *)
ObservedSlices == Slices(observed, quant_axis)

ObservedAbsMax == AbsMaxValues(observed, quant_axis)

Channels == 1..Len(max)

(* The loss of channel c at the i-th factor the search evaluated. *)
LossAt(c, i) ==
  MseLoss(ObservedSlices[c], ScaleOf(GridOf(evaluated[i]), ObservedAbsMax[c]))

(* C1: when every channel of the observed tensor has a non-zero element,   *)
(* the quantize-dequantize error of each channel at the stored scale is at *)
(* most its error at the naive scale abs_max (factor 1.00).                *)
C1_RoundTrip ==
  (max # None /\ ValidAxis /\ \A c \in Channels : MaxAbs(ObservedSlices[c]) # 0)
  => \A c \in Channels :
       MseLoss(ObservedSlices[c], max[c])
         <= MseLoss(ObservedSlices[c], ObservedAbsMax[c])

(* C2: the search loop evaluates exactly 36 factors, in increasing order,  *)
(* the first being 0.30 and the last 1.00.                                 *)
C2_Candidates ==
  max # None
  => /\ Len(evaluated) = 36
     /\ evaluated[1] = Factor0
     /\ evaluated[Len(evaluated)] = FactorMax
     /\ \A i \in 1..(Len(evaluated) - 1) :
          DblLeq(evaluated[i], evaluated[i + 1]) /\ evaluated[i] # evaluated[i + 1]

C4_ZeroChannel ==
  max # None
  => \A c \in Channels :
       MaxAbs(ObservedSlices[c]) = 0
       => /\ max[c] = [n |-> 15, eps |-> TRUE]
          /\ (op \in {"max_value", "scales"} => ret[c] = [n |-> 15, eps |-> TRUE])

C4_Witness ==
  /\ max # None /\ ValidAxis /\ op = "scales"
  /\ \E c \in Channels : MaxAbs(ObservedSlices[c]) = 0 /\ ret[c] = [n |-> 15, eps |-> TRUE]
  /\ \E c \in Channels : MaxAbs(ObservedSlices[c]) # 0

C8_InvalidAxis ==
  ~ValidAxis => (max = None /\ (op = "forward" => err # "none"))

(* C5: once forward has stored _max, every later forward call leaves _max, *)
(* _scale and _zero_point as they are and returns its input; _max, and so  *)
(* max_value(), is the search result of the first observed tensor.         *)
C5_FirstCallWins ==
  /\ [](observed # None
        => /\ max = CalAbsMax(observed, quant_axis).result
           /\ (op = "max_value" => ret = max)
           /\ (op = "forward" => ret = arg /\ err = "none"))
  /\ [][max # None
        => /\ max' = max
           /\ (op' = "forward" => scale' = scale /\ zero_point' = zero_point)]_vars

C5_Witness ==
  /\ op = "forward" /\ observed # None /\ arg # observed /\ ret = arg
  /\ max = CalAbsMax(observed, quant_axis).result
  /\ max # CalAbsMax(arg, quant_axis).result

(* C6: after the first forward, scales() returns the stored _max and       *)
(* zero_points() zeros of its length; _scale and _zero_point are both set  *)
(* or both unset; once set, no call changes them or _max.                  *)
C6_Thresholds ==
  /\ [](observed # None
        => /\ (scale = None) <=> (zero_point = None)
           /\ (scale # None => scale = max /\ zero_point = ZerosLike(max))
           /\ max = CalAbsMax(observed, quant_axis).result
           /\ (op = "scales" => ret = max /\ err = "none")
           /\ (op = "zero_points" => ret = ZerosLike(max) /\ err = "none"))
  /\ [][(observed # None /\ scale # None)
        => (scale' = scale /\ zero_point' = zero_point /\ max' = max)]_vars

C6_Witness ==
  /\ observed # None /\ op = "zero_points" /\ ret = ZerosLike(max)
  /\ scale = max /\ Len(ret) = Len(max) /\ arg = None

(* C7: before any forward, max_value(), scales() and zero_points() each    *)
(* fail: none returns.                                                     *)
C7_NotCalibrated ==
  (max = None /\ op \in {"max_value", "scales", "zero_points"}) => err # "none"

(* C10: _max is overwritten after it was set only when forward calls are   *)
(* not run atomically; under the lock it never is.                         *)
C10_Overwrite == [][(max # None /\ max' # max) => ~atomic]_vars

C10_Witness ==
  /\ ~atomic /\ scale # None /\ scale # max /\ max # None

====
